---- MODULE Spec2Model ----
(***************************************************************************)
(* Decode-and-execute core of the RV32I emulator.                          *)
(*                                                                         *)
(*   Spec    the instruction format decoder (instruction_formats.rs)       *)
(*           driven by the unit tests' bit-field assembler and by the      *)
(*           fuzz harness' arbitrary byte slices.                          *)
(*   VmSpec  Instruction::execute_instruction on a VmState (emulator.rs)   *)
(*           and the branch function of rv32i.rs.                          *)
(*   SketchSpec  the program of the `sketch` test, run in order.           *)
(*   EmuSpec the standalone Emulator (add, addi, sub, lui, auipc).         *)
(*                                                                         *)
(* A u32 is a function 0..31 -> {0,1} (bit i has weight 2^i), so that no   *)
(* intermediate value leaves the range of 32-bit signed integers.          *)
(***************************************************************************)
EXTENDS Integers, Sequences, FiniteSets, TLC

VARIABLES
    fields,     \* the bit fields the test assembled into `data` (fmt = "none": raw bytes)
    data,       \* the byte slice / array handed to the decoder
    result,     \* outcome of the last decoder call
    registers,  \* VmState.registers : [i32; 32]
    pc,         \* VmState.pc
    sp,         \* VmState.sp
    instr,      \* the instruction of the last execute_instruction call
    res,        \* its Result: "Ok", "NotImplemented", or "none" before the first call
    steps,      \* number of execute_instruction calls so far
    initial_registers,  \* the register file the VmState was created with
    emulator,   \* the Emulator: registers : [u32; 32] and pc : u32
    call,       \* the last call of an Emulator method, with its outcome
    calls       \* number of Emulator method calls so far

decVars == <<fields, data, result>>
vmVars == <<registers, pc, sp, instr, res, steps, initial_registers>>
emuVars == <<emulator, call, calls>>
vars == <<fields, data, result, registers, pc, sp, instr, res, steps,
          initial_registers, emulator, call, calls>>

----------------------------------------------------------------------------
(* Bounds *)

\* how many of the smallest values of each bit field / byte are sampled
NSmall == 2
\* longest byte slice handed to a parser
MaxLen == 5
\* longest sequence of execute_instruction calls
MaxSteps == 2

\* sample of the values of a w-bit field: the NSmall smallest and all-ones
Samples(w) == {v \in 0..(NSmall - 1) : v < 2^w} \cup {2^w - 1}

\* byte slices of length n
RECURSIVE SlicesOfLen(_)
SlicesOfLen(n) ==
    IF n = 0 THEN {<<>>}
    ELSE {Append(s, b) : s \in SlicesOfLen(n - 1), b \in Samples(8)}

Slices == UNION {SlicesOfLen(n) : n \in 0..MaxLen}

----------------------------------------------------------------------------
(* u32 and u8 primitives *)

Bit(v, i) == (v \div (2^i)) % 2

\* u32::from_le_bytes([b0, b1, b2, b3]); b is the 4-tuple, 1-based
from_le_bytes(b) == [i \in 0..31 |-> Bit(b[(i \div 8) + 1], i % 8)]

RECURSIVE BitsValue(_, _, _)
\* value of bits from..from+n-1 of the u32 w
BitsValue(w, from, n) ==
    IF n = 0 THEN 0 ELSE w[from] + 2 * BitsValue(w, from + 1, n - 1)

\* u32::to_le_bytes
to_le_bytes(w) == [k \in 1..4 |-> BitsValue(w, 8 * (k - 1), 8)]

\* tests::bits_to_u32: fold (acc << 1) | bit over the bits, most significant
\* first; bits shifted beyond bit 31 are lost
bits_to_u32(bits) ==
    [i \in 0..31 |-> IF i < Len(bits) THEN bits[Len(bits) - i] ELSE 0]

\* the bit array of a test, most significant bit first
BitArray(v, n) == [j \in 1..n |-> Bit(v, n - j)]

RECURSIVE ShrAndFrom(_, _, _, _)
ShrAndFrom(w, k, mask, i) ==
    IF i > 31 - k \/ 2^i > mask THEN 0
    ELSE w[k + i] * Bit(mask, i) * (2^i) + ShrAndFrom(w, k, mask, i + 1)

\* (instruction >> k) & mask, for a mask below 2^31
ShrAnd(w, k, mask) == ShrAndFrom(w, k, mask, 0)

\* `as u8` of an unsigned value: keeps the low 8 bits
AsU8(v) == v % 256

RECURSIVE BitAnd(_, _)
\* a & b on naturals
BitAnd(a, b) ==
    IF a = 0 \/ b = 0 THEN 0
    ELSE (a % 2) * (b % 2) + 2 * BitAnd(a \div 2, b \div 2)

----------------------------------------------------------------------------
(* InstructionFormat *)

Formats == {"R", "I", "S", "B", "U", "J", "Unknown"}

detect_format_from_opcode_NoOpImm32(opcode) ==
    CASE opcode \in {51, 83} -> "R"
      [] opcode \in {3, 19, 27, 103, 115} -> "I"
      [] opcode = 35 -> "S"
      [] opcode = 99 -> "B"
      [] opcode \in {23, 55} -> "U"
      [] opcode = 111 -> "J"
      [] OTHER -> "Unknown"

detect_format_from_opcode(opcode) ==
    CASE opcode \in {51, 59, 83} -> "R"
      [] opcode \in {3, 19, 27, 103, 115} -> "I"
      [] opcode = 35 -> "S"
      [] opcode = 99 -> "B"
      [] opcode \in {23, 55} -> "U"
      [] opcode = 111 -> "J"
      [] OTHER -> "Unknown"

get_opcode_from_instruction_LastByte(instruction) == BitAnd(instruction[4], 127)

\* instruction is a [u8; 4]
get_opcode_from_instruction(instruction) == BitAnd(instruction[1], 127)

----------------------------------------------------------------------------
(* Format records *)

InstructionFormatR_new_Rs1Shift14(w) ==
    [opcode |-> AsU8(ShrAnd(w, 0, 127)),
     rd     |-> AsU8(ShrAnd(w, 7, 31)),
     funct3 |-> AsU8(ShrAnd(w, 12, 7)),
     rs1    |-> AsU8(ShrAnd(w, 14, 31)),
     rs2    |-> AsU8(ShrAnd(w, 20, 31)),
     funct7 |-> AsU8(ShrAnd(w, 25, 127))]

InstructionFormatR_new(w) ==
    [opcode |-> AsU8(ShrAnd(w, 0, 127)),
     rd     |-> AsU8(ShrAnd(w, 7, 31)),
     funct3 |-> AsU8(ShrAnd(w, 12, 7)),
     rs1    |-> AsU8(ShrAnd(w, 15, 31)),
     rs2    |-> AsU8(ShrAnd(w, 20, 31)),
     funct7 |-> AsU8(ShrAnd(w, 25, 127))]

InstructionFormatI_new(w) ==
    [opcode |-> AsU8(ShrAnd(w, 0, 127)),
     rd     |-> AsU8(ShrAnd(w, 7, 31)),
     funct3 |-> AsU8(ShrAnd(w, 12, 7)),
     rs1    |-> AsU8(ShrAnd(w, 15, 31)),
     imm    |-> AsU8(ShrAnd(w, 20, 4095))]

InstructionFormatS_new_Rs1Mask6(w) ==
    [imm_5_to_11 |-> AsU8(ShrAnd(w, 25, 127)),
     rs2         |-> AsU8(ShrAnd(w, 20, 31)),
     rs1         |-> AsU8(ShrAnd(w, 15, 63)),
     func3       |-> AsU8(ShrAnd(w, 12, 7)),
     imm_0_to_4  |-> AsU8(ShrAnd(w, 7, 31)),
     opcode      |-> AsU8(ShrAnd(w, 0, 127))]

InstructionFormatS_new(w) ==
    [imm_5_to_11 |-> AsU8(ShrAnd(w, 25, 127)),
     rs2         |-> AsU8(ShrAnd(w, 20, 31)),
     rs1         |-> AsU8(ShrAnd(w, 15, 31)),
     func3       |-> AsU8(ShrAnd(w, 12, 7)),
     imm_0_to_4  |-> AsU8(ShrAnd(w, 7, 31)),
     opcode      |-> AsU8(ShrAnd(w, 0, 127))]

InstructionFormatB_new_SLayout(w) ==
    [sign_imm_5_to_11 |-> AsU8(ShrAnd(w, 31, 1)),
     imm_5_to_11      |-> AsU8(ShrAnd(w, 25, 127)),
     rs2              |-> AsU8(ShrAnd(w, 20, 31)),
     rs1              |-> AsU8(ShrAnd(w, 15, 31)),
     func3            |-> AsU8(ShrAnd(w, 12, 7)),
     imm_0_to_4       |-> AsU8(ShrAnd(w, 7, 31)),
     sign_imm_0_to_4  |-> AsU8(ShrAnd(w, 7, 1)),
     opcode           |-> AsU8(ShrAnd(w, 0, 127))]

InstructionFormatB_new(w) ==
    [sign_imm_5_to_11 |-> AsU8(ShrAnd(w, 31, 1)),
     imm_5_to_11      |-> AsU8(ShrAnd(w, 25, 63)),
     rs2              |-> AsU8(ShrAnd(w, 20, 31)),
     rs1              |-> AsU8(ShrAnd(w, 15, 31)),
     func3            |-> AsU8(ShrAnd(w, 12, 7)),
     imm_0_to_4       |-> AsU8(ShrAnd(w, 8, 15)),
     sign_imm_0_to_4  |-> AsU8(ShrAnd(w, 7, 1)),
     opcode           |-> AsU8(ShrAnd(w, 0, 127))]

InstructionFormatU_new(w) ==
    [imm    |-> AsU8(ShrAnd(w, 12, 1048575)),
     rd     |-> AsU8(ShrAnd(w, 7, 31)),
     opcode |-> AsU8(ShrAnd(w, 0, 127))]

InstructionFormatJ_new(w) ==
    [sign_imm_21_30 |-> AsU8(ShrAnd(w, 31, 1)),
     imm_21_30      |-> AsU8(ShrAnd(w, 21, 1023)),
     sign_imm_12_19 |-> AsU8(ShrAnd(w, 20, 1)),
     imm_12_19      |-> AsU8(ShrAnd(w, 12, 255)),
     rd             |-> AsU8(ShrAnd(w, 7, 31)),
     opcode         |-> AsU8(ShrAnd(w, 0, 127))]

----------------------------------------------------------------------------
(* parse_instruction_from_bytes: bytes[0..3] are indexed; indexing a slice *)
(* past its length panics, bytes after the fourth are never looked at.     *)

NoRec == [none |-> TRUE]
Returned(fn, rec) == [fn |-> fn, status |-> "ok", rec |-> rec]
Panicked(fn) == [fn |-> fn, status |-> "panic", rec |-> NoRec]

\* can the slice be indexed at every (0-based) index of idxs?
InBounds(bytes, idxs) == \A i \in idxs : i < Len(bytes)

\* [bytes[0], bytes[1], bytes[2], bytes[3]]
FirstFour(bytes) == <<bytes[1], bytes[2], bytes[3], bytes[4]>>

InstructionFormatR_parse_instruction_from_bytes_OffByOne(bytes) ==
    IF InBounds(bytes, {1, 2, 3, 4})
    THEN Returned("parse_R", InstructionFormatR_new(from_le_bytes(FirstFour(bytes))))
    ELSE Panicked("parse_R")

InstructionFormatR_parse_instruction_from_bytes(bytes) ==
    IF InBounds(bytes, {0, 1, 2, 3})
    THEN Returned("parse_R", InstructionFormatR_new(from_le_bytes(FirstFour(bytes))))
    ELSE Panicked("parse_R")

InstructionFormatI_parse_instruction_from_bytes(bytes) ==
    IF InBounds(bytes, {0, 1, 2, 3})
    THEN Returned("parse_I", InstructionFormatI_new(from_le_bytes(FirstFour(bytes))))
    ELSE Panicked("parse_I")

InstructionFormatS_parse_instruction_from_bytes(bytes) ==
    IF InBounds(bytes, {0, 1, 2, 3})
    THEN Returned("parse_S", InstructionFormatS_new(from_le_bytes(FirstFour(bytes))))
    ELSE Panicked("parse_S")

InstructionFormatB_parse_instruction_from_bytes(bytes) ==
    IF InBounds(bytes, {0, 1, 2, 3})
    THEN Returned("parse_B", InstructionFormatB_new(from_le_bytes(FirstFour(bytes))))
    ELSE Panicked("parse_B")

InstructionFormatU_parse_instruction_from_bytes(bytes) ==
    IF InBounds(bytes, {0, 1, 2, 3})
    THEN Returned("parse_U", InstructionFormatU_new(from_le_bytes(FirstFour(bytes))))
    ELSE Panicked("parse_U")

InstructionFormatJ_parse_instruction_from_bytes(bytes) ==
    IF InBounds(bytes, {0, 1, 2, 3})
    THEN Returned("parse_J", InstructionFormatJ_new(from_le_bytes(FirstFour(bytes))))
    ELSE Panicked("parse_J")

\* fuzz_target_1: slices of another length are dropped before the parser
fuzz_target(bytes) ==
    IF Len(bytes) # 4 THEN Returned("fuzz_target", NoRec)
    ELSE [InstructionFormatR_parse_instruction_from_bytes(bytes)
            EXCEPT !.fn = "fuzz_target"]

ParseFns == {"parse_R", "parse_I", "parse_S", "parse_B", "parse_U", "parse_J"}

\* the number of bits of each field: the width of its mask in `new`
FieldWidths(fn) ==
    CASE fn = "parse_R" ->
           [opcode |-> 7, rd |-> 5, funct3 |-> 3, rs1 |-> 5, rs2 |-> 5, funct7 |-> 7]
      [] fn = "parse_I" ->
           [opcode |-> 7, rd |-> 5, funct3 |-> 3, rs1 |-> 5, imm |-> 12]
      [] fn = "parse_S" ->
           [imm_5_to_11 |-> 7, rs2 |-> 5, rs1 |-> 5, func3 |-> 3, imm_0_to_4 |-> 5,
            opcode |-> 7]
      [] fn = "parse_B" ->
           [sign_imm_5_to_11 |-> 1, imm_5_to_11 |-> 6, rs2 |-> 5, rs1 |-> 5,
            func3 |-> 3, imm_0_to_4 |-> 4, sign_imm_0_to_4 |-> 1, opcode |-> 7]
      [] fn = "parse_U" ->
           [imm |-> 20, rd |-> 5, opcode |-> 7]
      [] fn = "parse_J" ->
           [sign_imm_21_30 |-> 1, imm_21_30 |-> 10, sign_imm_12_19 |-> 1,
            imm_12_19 |-> 8, rd |-> 5, opcode |-> 7]

----------------------------------------------------------------------------
(* The decoder under its callers: a unit test assembles a word from bit    *)
(* fields and serialises it little-endian, the fuzz harness supplies any   *)
(* byte slice; then one decoder function is called on it.                  *)

NoFields == [fmt |-> "none"]
RawBytes == [fmt |-> "raw"]
NoResult == [fn |-> "none"]

Fresh == fields = NoFields /\ result = NoResult
Loaded == fields # NoFields /\ result = NoResult

\* bits.extend_from_slice(..)*; bits_to_u32(&bits).to_le_bytes()
Serialise(bits) == to_le_bytes(bits_to_u32(bits))

AssembleR ==
    /\ Fresh
    /\ \E opcode \in Samples(7), rd \in Samples(5), funct3 \in Samples(3),
          rs1 \in Samples(5), rs2 \in Samples(5), funct7 \in Samples(7) :
       /\ fields' = [fmt |-> "R", opcode |-> opcode, rd |-> rd, funct3 |-> funct3,
                     rs1 |-> rs1, rs2 |-> rs2, funct7 |-> funct7]
       /\ data' = Serialise(BitArray(funct7, 7) \o BitArray(rs2, 5) \o BitArray(rs1, 5)
                            \o BitArray(funct3, 3) \o BitArray(rd, 5) \o BitArray(opcode, 7))
       /\ UNCHANGED <<result, vmVars, emuVars>>

AssembleI ==
    /\ Fresh
    /\ \E opcode \in Samples(7), rd \in Samples(5), funct3 \in Samples(3),
          rs1 \in Samples(5), imm \in Samples(12) :
       /\ fields' = [fmt |-> "I", opcode |-> opcode, rd |-> rd, funct3 |-> funct3,
                     rs1 |-> rs1, imm |-> imm]
       /\ data' = Serialise(BitArray(imm, 12) \o BitArray(rs1, 5) \o BitArray(funct3, 3)
                            \o BitArray(rd, 5) \o BitArray(opcode, 7))
       /\ UNCHANGED <<result, vmVars, emuVars>>

AssembleS ==
    /\ Fresh
    /\ \E opcode \in Samples(7), imm_0_to_4 \in Samples(5), func3 \in Samples(3),
          rs1 \in Samples(5), rs2 \in Samples(5), imm_5_to_11 \in Samples(7) :
       /\ fields' = [fmt |-> "S", opcode |-> opcode, imm_0_to_4 |-> imm_0_to_4,
                     func3 |-> func3, rs1 |-> rs1, rs2 |-> rs2,
                     imm_5_to_11 |-> imm_5_to_11]
       /\ data' = Serialise(BitArray(imm_5_to_11, 7) \o BitArray(rs2, 5) \o BitArray(rs1, 5)
                            \o BitArray(func3, 3) \o BitArray(imm_0_to_4, 5)
                            \o BitArray(opcode, 7))
       /\ UNCHANGED <<result, vmVars, emuVars>>

AssembleB ==
    /\ Fresh
    /\ \E opcode \in Samples(7), sign_imm_0_to_4 \in Samples(1),
          imm_0_to_4 \in Samples(4), func3 \in Samples(3), rs1 \in Samples(5),
          rs2 \in Samples(5), imm_5_to_11 \in Samples(6),
          sign_imm_5_to_11 \in Samples(1) :
       /\ fields' = [fmt |-> "B", opcode |-> opcode, sign_imm_0_to_4 |-> sign_imm_0_to_4,
                     imm_0_to_4 |-> imm_0_to_4, func3 |-> func3, rs1 |-> rs1,
                     rs2 |-> rs2, imm_5_to_11 |-> imm_5_to_11,
                     sign_imm_5_to_11 |-> sign_imm_5_to_11]
       /\ data' = Serialise(BitArray(sign_imm_5_to_11, 1) \o BitArray(imm_5_to_11, 6)
                            \o BitArray(rs2, 5) \o BitArray(rs1, 5) \o BitArray(func3, 3)
                            \o BitArray(imm_0_to_4, 4) \o BitArray(sign_imm_0_to_4, 1)
                            \o BitArray(opcode, 7))
       /\ UNCHANGED <<result, vmVars, emuVars>>

AssembleU ==
    /\ Fresh
    /\ \E opcode \in Samples(7), rd \in Samples(5), imm \in Samples(20) :
       /\ fields' = [fmt |-> "U", opcode |-> opcode, rd |-> rd, imm |-> imm]
       /\ data' = Serialise(BitArray(imm, 20) \o BitArray(rd, 5) \o BitArray(opcode, 7))
       /\ UNCHANGED <<result, vmVars, emuVars>>

AssembleJ ==
    /\ Fresh
    /\ \E opcode \in Samples(7), rd \in Samples(5), imm_12_19 \in Samples(8),
          sign_imm_12_19 \in Samples(1), imm_21_30 \in Samples(10),
          sign_imm_21_30 \in Samples(1) :
       /\ fields' = [fmt |-> "J", opcode |-> opcode, rd |-> rd, imm_12_19 |-> imm_12_19,
                     sign_imm_12_19 |-> sign_imm_12_19, imm_21_30 |-> imm_21_30,
                     sign_imm_21_30 |-> sign_imm_21_30]
       /\ data' = Serialise(BitArray(sign_imm_21_30, 1) \o BitArray(imm_21_30, 10)
                            \o BitArray(sign_imm_12_19, 1) \o BitArray(imm_12_19, 8)
                            \o BitArray(rd, 5) \o BitArray(opcode, 7))
       /\ UNCHANGED <<result, vmVars, emuVars>>

\* the fuzzer's input: any byte slice
FuzzInput ==
    /\ Fresh
    /\ \E bytes \in Slices :
       /\ fields' = RawBytes
       /\ data' = bytes
       /\ UNCHANGED <<result, vmVars, emuVars>>

ParseR ==
    /\ Loaded
    /\ result' = InstructionFormatR_parse_instruction_from_bytes(data)
    /\ UNCHANGED <<fields, data, vmVars, emuVars>>

ParseI ==
    /\ Loaded
    /\ result' = InstructionFormatI_parse_instruction_from_bytes(data)
    /\ UNCHANGED <<fields, data, vmVars, emuVars>>

ParseS ==
    /\ Loaded
    /\ result' = InstructionFormatS_parse_instruction_from_bytes(data)
    /\ UNCHANGED <<fields, data, vmVars, emuVars>>

ParseB ==
    /\ Loaded
    /\ result' = InstructionFormatB_parse_instruction_from_bytes(data)
    /\ UNCHANGED <<fields, data, vmVars, emuVars>>

ParseU ==
    /\ Loaded
    /\ result' = InstructionFormatU_parse_instruction_from_bytes(data)
    /\ UNCHANGED <<fields, data, vmVars, emuVars>>

ParseJ ==
    /\ Loaded
    /\ result' = InstructionFormatJ_parse_instruction_from_bytes(data)
    /\ UNCHANGED <<fields, data, vmVars, emuVars>>

FuzzTarget ==
    /\ Loaded
    /\ result' = fuzz_target(data)
    /\ UNCHANGED <<fields, data, vmVars, emuVars>>

\* the argument is a [u8; 4]: only 4-byte inputs type-check
GetOpcode ==
    /\ Loaded
    /\ Len(data) = 4
    /\ result' = [fn |-> "get_opcode", status |-> "ok",
                  val |-> get_opcode_from_instruction(data)]
    /\ UNCHANGED <<fields, data, vmVars, emuVars>>

\* the argument is a u8
DetectFormat ==
    /\ Fresh
    /\ \E opcode \in 0..255 :
       /\ fields' = [fmt |-> "opcode", opcode |-> opcode]
       /\ result' = [fn |-> "detect_format", status |-> "ok",
                     val |-> detect_format_from_opcode(opcode)]
       /\ UNCHANGED <<data, vmVars, emuVars>>

----------------------------------------------------------------------------
(* i32 arithmetic *)

MaxI32 == 2147483647
MinI32 == -2147483647 - 1

saturating_add(a, b) ==
    IF a >= 0 /\ b > MaxI32 - a THEN MaxI32
    ELSE IF a < 0 /\ b < MinI32 - a THEN MinI32
    ELSE a + b

\* i32::wrapping_add: a + b - 2^32 on positive overflow, a + b + 2^32 on
\* negative overflow, computed without leaving the i32 range
wrapping_add(a, b) ==
    IF a >= 0 /\ b > MaxI32 - a THEN (a + MinI32) + (b + MinI32)
    ELSE IF a < 0 /\ b < MinI32 - a THEN (a - MinI32) + (b - MinI32)
    ELSE a + b

\* the two 16-bit halves of the two's complement representation of an i32
Lo16(x) == x % 65536
Hi16(x) == (x \div 65536) % 65536

\* `as i32` of an i16: sign extension of the 16-bit pattern
I16AsI32(x) == IF Lo16(x) >= 32768 THEN Lo16(x) - 65536 ELSE Lo16(x)

----------------------------------------------------------------------------
(* Instruction, VmState *)

RegularOps == {"Add", "Sub", "Xor", "Or", "And", "Sll", "Srl", "Sra", "Slt", "Sltu"}
ImmediateOps == {"Addi", "Xori", "Ori", "Andi", "Slli", "Srli", "Srai", "Slti", "Sltiu"}
LoadOps == {"Lb", "Lh", "Lw", "Lbu", "Lhu"}
StoreOps == {"Sb", "Sh", "Sw"}
BranchOps == {"Beq", "Bne", "Blt", "Bge", "Bltu", "Bgeu"}

\* register indices and i16 immediates the instructions are built from
RdVals == {0, 10}
RsVals == {10, 11}
ImmVals == {-1, 11}

DestinationSource1Source2 == [rd : RdVals, rs1 : RsVals, rs2 : RsVals]
Source1Source2Immediate == [rs1 : RsVals, rs2 : RsVals, imm : ImmVals]
DestinationSource1Immediate == [rd : RdVals, rs1 : RsVals, imm : ImmVals]
DestinationImmediate == [rd : RdVals, imm : ImmVals]
NoOperands == [none : {TRUE}]

Rv32iInstruction ==
    [family : {"Rv32i"}, op : RegularOps, sig : DestinationSource1Source2]
    \cup [family : {"Rv32i"}, op : ImmediateOps \cup LoadOps \cup StoreOps \cup {"Jalr"},
          sig : DestinationSource1Immediate]
    \cup [family : {"Rv32i"}, op : BranchOps, sig : Source1Source2Immediate]
    \cup [family : {"Rv32i"}, op : {"Jal", "Lui", "Auipc"}, sig : DestinationImmediate]
    \cup [family : {"Rv32i"}, op : {"Ecall", "Ebreak"}, sig : NoOperands]

PseudoInstruction ==
    [family : {"Pseudo"}, op : {"Ret"}, sig : NoOperands]
    \cup [family : {"Pseudo"}, op : {"Li"}, sig : DestinationImmediate]

Instruction == Rv32iInstruction \cup PseudoInstruction

NoInstruction == [family |-> "none", op |-> "none", sig |-> [none |-> TRUE]]

\* the VmState of the `sketch` test: all registers 0 but a0 = x10 and a1 = x11
SketchState(a, b) ==
    [registers |-> [r \in 0..31 |-> IF r = 10 THEN a ELSE IF r = 11 THEN b ELSE 0],
     sp |-> 0, pc |-> 0]

InitialOperands == {<<2, 3>>, <<50, 55>>, <<MaxI32, 1>>, <<MinI32, -1>>}

rv32i_instruction_add_Saturating(sig, vm) ==
    IF sig.rd = 0 THEN vm
    ELSE [vm EXCEPT !.registers[sig.rd] =
              saturating_add(vm.registers[sig.rs1], vm.registers[sig.rs2])]

rv32i_instruction_add_Rs1Twice(sig, vm) ==
    IF sig.rd = 0 THEN vm
    ELSE [vm EXCEPT !.registers[sig.rd] =
              wrapping_add(vm.registers[sig.rs1], vm.registers[sig.rs1])]

rv32i_instruction_add(sig, vm) ==
    IF sig.rd = 0 THEN vm
    ELSE [vm EXCEPT !.registers[sig.rd] =
              wrapping_add(vm.registers[sig.rs1], vm.registers[sig.rs2])]

execute_instruction_LiZeroExtends(i, vm) ==
    IF i.family = "Rv32i"
    THEN IF i.op = "Add"
         THEN [vm |-> rv32i_instruction_add(i.sig, vm), res |-> "Ok"]
         ELSE [vm |-> vm, res |-> "NotImplemented"]
    ELSE IF i.op = "Li"
         THEN [vm |-> [vm EXCEPT !.registers[i.sig.rd] = Lo16(i.sig.imm)],
               res |-> "Ok"]
         ELSE [vm |-> vm, res |-> "NotImplemented"]

execute_instruction_PartialWrite(i, vm) ==
    IF i.family = "Rv32i"
    THEN IF i.op = "Add"
         THEN [vm |-> rv32i_instruction_add(i.sig, vm), res |-> "Ok"]
         ELSE IF i.op = "Sub"
         THEN [vm |-> [vm EXCEPT !.registers[i.sig.rd] = vm.registers[i.sig.rs1]],
               res |-> "NotImplemented"]
         ELSE [vm |-> vm, res |-> "NotImplemented"]
    ELSE IF i.op = "Li"
         THEN [vm |-> [vm EXCEPT !.registers[i.sig.rd] = I16AsI32(i.sig.imm)],
               res |-> "Ok"]
         ELSE [vm |-> vm, res |-> "NotImplemented"]

\* the pair (VmState after the call, Result of the call)
execute_instruction(i, vm) ==
    IF i.family = "Rv32i"
    THEN IF i.op = "Add"
         THEN [vm |-> rv32i_instruction_add(i.sig, vm), res |-> "Ok"]
         ELSE [vm |-> vm, res |-> "NotImplemented"]
    ELSE IF i.op = "Li"
         THEN [vm |-> [vm EXCEPT !.registers[i.sig.rd] = I16AsI32(i.sig.imm)],
               res |-> "Ok"]
         ELSE [vm |-> vm, res |-> "NotImplemented"]

VmState == [registers |-> registers, sp |-> sp, pc |-> pc]

Execute ==
    /\ steps < MaxSteps
    /\ \E i \in Instruction :
         LET out == execute_instruction(i, VmState)
         IN /\ registers' = out.vm.registers
            /\ sp' = out.vm.sp
            /\ pc' = out.vm.pc
            /\ res' = out.res
            /\ instr' = i
    /\ steps' = steps + 1
    /\ UNCHANGED <<initial_registers, decVars, emuVars>>

\* rv32i.rs: the branch function, called directly (execute_instruction does
\* not dispatch to it); it compares the two fields of the signature
rv32i_instruction_bltu(sig, vm) ==
    IF sig.rs1 < sig.rs2
    THEN [vm EXCEPT !.pc = vm.pc + I16AsI32(sig.imm)]
    ELSE vm

CallBltu ==
    /\ steps < MaxSteps
    /\ \E sig \in Source1Source2Immediate :
         LET out == rv32i_instruction_bltu(sig, VmState)
         IN /\ registers' = out.registers
            /\ sp' = out.sp
            /\ pc' = out.pc
            /\ res' = "Returned"
            /\ instr' = [family |-> "Rv32i", op |-> "Bltu", sig |-> sig]
    /\ steps' = steps + 1
    /\ UNCHANGED <<initial_registers, decVars, emuVars>>

----------------------------------------------------------------------------
(* The `sketch` test: its program is fed to execute_instruction in order *)

Li(rd, imm) ==
    [family |-> "Pseudo", op |-> "Li", sig |-> [rd |-> rd, imm |-> imm]]
Add(rd, rs1, rs2) ==
    [family |-> "Rv32i", op |-> "Add", sig |-> [rd |-> rd, rs1 |-> rs1, rs2 |-> rs2]]
Bltu(rs1, rs2, imm) ==
    [family |-> "Rv32i", op |-> "Bltu", sig |-> [rs1 |-> rs1, rs2 |-> rs2, imm |-> imm]]
Ret == [family |-> "Pseudo", op |-> "Ret", sig |-> [none |-> TRUE]]

instructions ==
    <<Li(13, 10), Li(12, 15), Bltu(10, 11, 11), Li(12, 25),
      Add(10, 10, 11), Add(10, 10, 12), Ret>>

\* values of a0 and a1 the program is started with
SketchA == {2, 50, 0, MaxI32}
SketchB == {3, 55, -1, 1}

\* one iteration of `for instruction in instructions`; the Result is dropped
RunSketch ==
    /\ steps < Len(instructions)
    /\ LET i == instructions[steps + 1]
           out == execute_instruction(i, VmState)
       IN /\ registers' = out.vm.registers
          /\ sp' = out.vm.sp
          /\ pc' = out.vm.pc
          /\ res' = out.res
          /\ instr' = i
    /\ steps' = steps + 1
    /\ UNCHANGED <<initial_registers, decVars, emuVars>>

----------------------------------------------------------------------------
(* u32 arithmetic: a u32 is the pair <<high 16 bits, low 16 bits>> *)

\* `as u32` of an i32 and `as i32` of a u32: the same 32 bits
I32AsU32(x) == <<Hi16(x), Lo16(x)>>
U32AsI32(u) ==
    IF u[1] >= 32768 THEN (u[1] - 65536) * 65536 + u[2] ELSE u[1] * 65536 + u[2]

u32_wrapping_add(a, b) ==
    <<(a[1] + b[1] + ((a[2] + b[2]) \div 65536)) % 65536, (a[2] + b[2]) % 65536>>

u32_wrapping_sub(a, b) ==
    <<(a[1] - b[1] + ((a[2] - b[2]) \div 65536)) % 65536, (a[2] - b[2]) % 65536>>

\* does a + b exceed u32::MAX (the `+` operator then panics in a build with
\* overflow checks and wraps in one without)
u32_add_overflows(a, b) == a[1] + b[1] + ((a[2] + b[2]) \div 65536) >= 65536

\* x << n on an i32, 0 < n < 16: the bits shifted out are lost
i32_shl(x, n) ==
    U32AsI32(<<(Hi16(x) % (2^(16 - n))) * (2^n) + (Lo16(x) \div (2^(16 - n))),
               (Lo16(x) % (2^(16 - n))) * (2^n)>>)

----------------------------------------------------------------------------
(* Emulator *)

Emulator_new == [registers |-> [r \in 0..31 |-> <<0, 0>>], pc |-> <<0, 0>>]

get_register_value(e, register_index) == U32AsI32(e.registers[register_index])

Emulator_add(e, rd, rs1, rs2) ==
    IF rd = 0 THEN e
    ELSE [e EXCEPT !.registers[rd] =
              u32_wrapping_add(e.registers[rs1], e.registers[rs2])]

Emulator_addi_NoGuard(e, rd, rs1, imm) ==
    [e EXCEPT !.registers[rd] = u32_wrapping_add(e.registers[rs1], I32AsU32(imm))]

Emulator_addi(e, rd, rs1, imm) ==
    IF rd = 0 THEN e
    ELSE [e EXCEPT !.registers[rd] =
              u32_wrapping_add(e.registers[rs1], I32AsU32(imm))]

Emulator_sub(e, rd, rs1, rs2) ==
    IF rd = 0 THEN e
    ELSE [e EXCEPT !.registers[rd] =
              u32_wrapping_sub(e.registers[rs1], e.registers[rs2])]

Emulator_lui_NoShift(e, rd, imm) ==
    IF rd = 0 THEN e
    ELSE [e EXCEPT !.registers[rd] = I32AsU32(imm)]

Emulator_lui(e, rd, imm) ==
    IF rd = 0 THEN e
    ELSE [e EXCEPT !.registers[rd] = I32AsU32(i32_shl(imm, 12))]

\* the state after a call that returns
Emulator_auipc(e, rd, imm) ==
    IF rd = 0 THEN e
    ELSE [e EXCEPT !.registers[rd] =
              u32_wrapping_add(e.pc, I32AsU32(i32_shl(imm, 12)))]

\* can self.pc + imm_as_bits overflow in this call
Emulator_auipc_overflows(e, rd, imm) ==
    rd # 0 /\ u32_add_overflows(e.pc, I32AsU32(i32_shl(imm, 12)))

\* longest sequence of Emulator method calls
MaxCalls == 2

\* register indices and immediates the methods are called with
EmuRd == {0, 1, 2}
EmuRs == {1, 2}
EmuImm == {1, -1, 524288, 1048577}

NoCall == [fn |-> "none"]

CallAdd ==
    /\ calls < MaxCalls
    /\ \E rd \in EmuRd, rs1 \in EmuRs, rs2 \in EmuRs :
         /\ emulator' = Emulator_add(emulator, rd, rs1, rs2)
         /\ call' = [fn |-> "add", rd |-> rd, rs1 |-> rs1, rs2 |-> rs2,
                     status |-> "ok"]
    /\ calls' = calls + 1
    /\ UNCHANGED <<decVars, vmVars>>

CallAddi ==
    /\ calls < MaxCalls
    /\ \E rd \in EmuRd, rs1 \in EmuRs, imm \in EmuImm :
         /\ emulator' = Emulator_addi(emulator, rd, rs1, imm)
         /\ call' = [fn |-> "addi", rd |-> rd, rs1 |-> rs1, imm |-> imm,
                     status |-> "ok"]
    /\ calls' = calls + 1
    /\ UNCHANGED <<decVars, vmVars>>

CallSub ==
    /\ calls < MaxCalls
    /\ \E rd \in EmuRd, rs1 \in EmuRs, rs2 \in EmuRs :
         /\ emulator' = Emulator_sub(emulator, rd, rs1, rs2)
         /\ call' = [fn |-> "sub", rd |-> rd, rs1 |-> rs1, rs2 |-> rs2,
                     status |-> "ok"]
    /\ calls' = calls + 1
    /\ UNCHANGED <<decVars, vmVars>>

CallLui ==
    /\ calls < MaxCalls
    /\ \E rd \in EmuRd, imm \in EmuImm :
         /\ emulator' = Emulator_lui(emulator, rd, imm)
         /\ call' = [fn |-> "lui", rd |-> rd, imm |-> imm, status |-> "ok"]
    /\ calls' = calls + 1
    /\ UNCHANGED <<decVars, vmVars>>

\* an overflowing `+` panics or wraps, depending on the build
CallAuipc ==
    /\ calls < MaxCalls
    /\ \E rd \in EmuRd, imm \in EmuImm :
         \E status \in (IF Emulator_auipc_overflows(emulator, rd, imm)
                        THEN {"ok", "panic"} ELSE {"ok"}) :
            /\ emulator' = IF status = "ok" THEN Emulator_auipc(emulator, rd, imm)
                           ELSE emulator
            /\ call' = [fn |-> "auipc", rd |-> rd, imm |-> imm, status |-> status]
    /\ calls' = calls + 1
    /\ UNCHANGED <<decVars, vmVars>>

----------------------------------------------------------------------------
(* Specifications *)

DecInit == fields = NoFields /\ data = <<>> /\ result = NoResult

VmReset ==
    /\ registers = SketchState(0, 0).registers
    /\ initial_registers = registers
    /\ sp = 0 /\ pc = 0
    /\ instr = NoInstruction /\ res = "none" /\ steps = 0

EmuInit == emulator = Emulator_new /\ call = NoCall /\ calls = 0

Init == DecInit /\ VmReset /\ EmuInit

Next ==
    \/ AssembleR
    \/ AssembleI
    \/ AssembleS
    \/ AssembleB
    \/ AssembleU
    \/ AssembleJ
    \/ FuzzInput
    \/ ParseR
    \/ ParseI
    \/ ParseS
    \/ ParseB
    \/ ParseU
    \/ ParseJ
    \/ FuzzTarget
    \/ GetOpcode
    \/ DetectFormat

Spec == Init /\ [][Next]_vars

VmInit ==
    /\ DecInit /\ EmuInit
    /\ \E ab \in InitialOperands : registers = SketchState(ab[1], ab[2]).registers
    /\ initial_registers = registers
    /\ sp = 0 /\ pc = 0
    /\ instr = NoInstruction /\ res = "none" /\ steps = 0

VmNext ==
    \/ Execute
    \/ CallBltu

VmSpec == VmInit /\ [][VmNext]_vars

SketchInit ==
    /\ DecInit /\ EmuInit
    /\ \E a \in SketchA, b \in SketchB : registers = SketchState(a, b).registers
    /\ initial_registers = registers
    /\ sp = 0 /\ pc = 0
    /\ instr = NoInstruction /\ res = "none" /\ steps = 0

SketchNext == RunSketch

SketchSpec == SketchInit /\ [][SketchNext]_vars

EmuNext ==
    \/ CallAdd
    \/ CallAddi
    \/ CallSub
    \/ CallLui
    \/ CallAuipc

\* a fresh Emulator; the decoder and the VmState are idle
EmuStart == DecInit /\ VmReset /\ EmuInit

EmuSpec == EmuStart /\ [][EmuNext]_vars

----------------------------------------------------------------------------
(* Properties of the decoder (checked under Spec) *)

\* C1: for every opcode 0..255 detect_format_from_opcode returns exactly one
\* format and never fails: R for {0x33, 0x3B, 0x53}, I for {0x03, 0x13, 0x1B,
\* 0x67, 0x73}, S for {0x23}, B for {0x63}, U for {0x17, 0x37}, J for {0x6F},
\* Unknown for every other value.
C1_FormatTable ==
    result.fn = "detect_format" =>
        LET o == fields.opcode
            f == result.val
        IN /\ result.status = "ok"
           /\ f \in Formats
           /\ (f = "R") <=> (o \in {51, 59, 83})
           /\ (f = "I") <=> (o \in {3, 19, 27, 103, 115})
           /\ (f = "S") <=> (o = 35)
           /\ (f = "B") <=> (o = 99)
           /\ (f = "U") <=> (o \in {23, 55})
           /\ (f = "J") <=> (o = 111)
           /\ (f = "Unknown") <=>
                  (o \notin {51, 59, 83, 3, 19, 27, 103, 115, 35, 99, 23, 55, 111})

C1_Witness ==
    result.fn = "detect_format" /\ fields.opcode = 59 /\ result.val = "R"

\* C2: for every 4-byte instruction get_opcode_from_instruction returns the low
\* 7 bits of the little-endian word formed from the 4 bytes; the result is in
\* 0..127 and the call never fails.
C2_OpcodeIsLow7Bits ==
    result.fn = "get_opcode" =>
        /\ result.status = "ok"
        /\ result.val = BitsValue(from_le_bytes(data), 0, 7)
        /\ result.val \in 0..127

C2_Witness ==
    /\ result.fn = "get_opcode"
    /\ data[1] = 255 /\ data[4] = 0
    /\ result.val = 127

\* C3: R-format round trip: the word assembled from opcode, rd, funct3, rs1,
\* rs2, funct7 and serialised little-endian decodes to exactly those six fields.
C3_RRoundTrip ==
    (fields.fmt = "R" /\ result.fn = "parse_R") =>
        /\ result.status = "ok"
        /\ result.rec = [opcode |-> fields.opcode, rd |-> fields.rd,
                         funct3 |-> fields.funct3, rs1 |-> fields.rs1,
                         rs2 |-> fields.rs2, funct7 |-> fields.funct7]

C3_Witness ==
    /\ fields.fmt = "R" /\ result.fn = "parse_R" /\ result.status = "ok"
    /\ fields.opcode = 127 /\ fields.rd = 1 /\ fields.funct3 = 0
    /\ fields.rs1 = 31 /\ fields.rs2 = 0 /\ fields.funct7 = 127
    /\ result.rec.rs1 = 31 /\ result.rec.funct7 = 127

C5_ImmRoundTrip ==
    LET w == from_le_bytes(FirstFour(data))
    IN /\ (result.fn = "parse_I" /\ result.status = "ok") =>
              result.rec = [opcode |-> BitsValue(w, 0, 7), rd |-> BitsValue(w, 7, 5),
                            funct3 |-> BitsValue(w, 12, 3), rs1 |-> BitsValue(w, 15, 5),
                            imm |-> BitsValue(w, 20, 12)]
       /\ (result.fn = "parse_U" /\ result.status = "ok") =>
              result.rec = [opcode |-> BitsValue(w, 0, 7), rd |-> BitsValue(w, 7, 5),
                            imm |-> BitsValue(w, 12, 20)]

\* C6: J-format round trip: the word assembled from imm[20], imm[10:1],
\* imm[11], imm[19:12], rd and opcode decodes to a record with exactly those
\* values, including all 10 bits of imm_21_30.
C6_JRoundTrip ==
    (fields.fmt = "J" /\ result.fn = "parse_J") =>
        /\ result.status = "ok"
        /\ result.rec = [sign_imm_21_30 |-> fields.sign_imm_21_30,
                         imm_21_30 |-> fields.imm_21_30,
                         sign_imm_12_19 |-> fields.sign_imm_12_19,
                         imm_12_19 |-> fields.imm_12_19,
                         rd |-> fields.rd, opcode |-> fields.opcode]

\* C7: decoding is total on 4-byte inputs: each of the six
\* parse_instruction_from_bytes functions, get_opcode_from_instruction and
\* detect_format_from_opcode returns a value, without panicking (an index
\* outside the buffer is a panic).
C7_TotalOnFourBytes ==
    /\ (Len(data) = 4 /\ result.fn \in ParseFns \cup {"fuzz_target"}) =>
           (result.status = "ok" /\ result.rec # NoRec)
    /\ result.fn \in {"get_opcode", "detect_format"} => result.status = "ok"

C7_Witness ==
    /\ fields = RawBytes /\ data = <<255, 255, 255, 255>>
    /\ result.fn = "parse_R" /\ result.status = "ok"
    /\ result.rec.funct7 = 127

\* C8: length validation: given a byte slice whose length is not exactly 4,
\* parse_instruction_from_bytes of any format reports a decode error as a
\* value instead of faulting or silently decoding a prefix.
C8_LengthValidated ==
    (result.fn \in ParseFns /\ Len(data) # 4) => result.status = "decode_error"

----------------------------------------------------------------------------
(* Properties of execute_instruction (checked under VmSpec) *)

HasRd(i) == "rd" \in DOMAIN i.sig

\* C9: register-zero invariant: starting with registers[0] = 0, after any
\* sequence of execute_instruction calls registers[0] is still 0, and an
\* instruction with rd = 0 leaves the whole register file unchanged.
C9_RegisterZero ==
    [][/\ registers'[0] = 0
       /\ (HasRd(instr') /\ instr'.sig.rd = 0) => registers' = registers]_vars

\* r is a + b reduced modulo 2^32 into the i32 range
IsSumMod2_32(r, a, b) ==
    /\ MinI32 <= r /\ r <= MaxI32
    /\ Lo16(r) = (Lo16(a) + Lo16(b)) % 65536
    /\ Hi16(r) = (Hi16(a) + Hi16(b) + ((Lo16(a) + Lo16(b)) \div 65536)) % 65536

\* C10: Add(rd, rs1, rs2) with rd # 0 returns Ok and sets registers[rd] to
\* registers[rs1] + registers[rs2] reduced modulo 2^32 into the i32 range,
\* using the operand values from before the write; no other register, pc or
\* sp changes.
C10_AddWraps ==
    [][(instr'.family = "Rv32i" /\ instr'.op = "Add" /\ instr'.sig.rd # 0) =>
          /\ res' = "Ok"
          /\ IsSumMod2_32(registers'[instr'.sig.rd],
                          registers[instr'.sig.rs1], registers[instr'.sig.rs2])
          /\ \A r \in (0..31) \ {instr'.sig.rd} : registers'[r] = registers[r]
          /\ pc' = pc /\ sp' = sp]_vars

\* i32::MAX + 1 has wrapped to i32::MIN in an Add whose rd is also its rs1
C10_Witness ==
    /\ instr.family = "Rv32i" /\ instr.op = "Add" /\ res = "Ok"
    /\ instr.sig = [rd |-> 10, rs1 |-> 10, rs2 |-> 11]
    /\ registers[11] = 1 /\ registers[10] = MinI32


\* C11: Li(rd, imm) returns Ok and sets registers[rd] to imm sign-extended from
\* 16 to 32 bits (a negative imm gives a negative register value); no other
\* register, pc or sp changes.
C11_LiLoadsImmediate ==
    [][(instr'.family = "Pseudo" /\ instr'.op = "Li") =>
          /\ res' = "Ok"
          /\ registers'[instr'.sig.rd] = instr'.sig.imm
          /\ (instr'.sig.imm < 0) => (registers'[instr'.sig.rd] < 0)
          /\ \A r \in (0..31) \ {instr'.sig.rd} : registers'[r] = registers[r]
          /\ pc' = pc /\ sp' = sp]_vars

C11_Witness ==
    /\ instr = Li(10, -1) /\ res = "Ok"
    /\ registers[10] = -1

\* C12: whenever execute_instruction returns the NotImplemented error, all 32
\* registers, pc and sp are as before the call.
C12_ErrorLeavesState ==
    [][(res' = "NotImplemented") =>
          (registers' = registers /\ pc' = pc /\ sp' = sp)]_vars

C12_Witness ==
    /\ instr.family = "Rv32i" /\ instr.op = "Sub" /\ instr.sig.rd = 10
    /\ res = "NotImplemented" /\ steps = 1
    /\ registers = initial_registers /\ registers[10] = 50

\* C13: Ret is a successful no-op: execute_instruction returns Ok and leaves
\* all 32 registers, pc and sp unchanged.
C13_RetIsOkNoOp ==
    [][(instr'.family = "Pseudo" /\ instr'.op = "Ret") =>
          /\ res' = "Ok"
          /\ registers' = registers /\ pc' = pc /\ sp' = sp]_vars

\* C14: after each instruction that returns Ok and does not itself set pc, pc
\* is exactly 4 greater than before the step (Add and Li are the instructions
\* that return Ok; neither sets pc).
C14_PcAdvancesBy4 ==
    [][(res' = "Ok") => (pc' = pc + 4)]_vars


\* a < b as unsigned 32-bit numbers, for a and b given as i32
ULt(a, b) == IF (a < 0) = (b < 0) THEN a < b ELSE b < 0

\* C15: Bltu(rs1, rs2, imm) compares the register values registers[rs1] and
\* registers[rs2] as unsigned 32-bit numbers: exactly when registers[rs1] <
\* registers[rs2], pc becomes pc + imm; otherwise imm is not added to pc; no
\* register is written.
C15_BltuComparesValues ==
    [][(instr'.family = "Rv32i" /\ instr'.op = "Bltu") =>
          /\ pc' = IF ULt(registers[instr'.sig.rs1], registers[instr'.sig.rs2])
                   THEN pc + instr'.sig.imm ELSE pc
          /\ registers' = registers]_vars

----------------------------------------------------------------------------
(* Properties of the sketch program (checked under SketchSpec) *)

\* C16: feeding Li x13,10; Li x12,15; Bltu x10,x11,imm; Li x12,25;
\* Add x10,x10,x11; Add x10,x10,x12; Ret in order to execute_instruction, from
\* registers all zero except x10 = a, x11 = b, ends with x10 = 130 for a = 50,
\* b = 55, and with x10 = 30, x11 = 3, x12 = 25, x13 = 10 and every other
\* register 0 for a = 2, b = 3.
C16_SketchResult ==
    (steps = Len(instructions)) =>
        /\ (initial_registers[10] = 50 /\ initial_registers[11] = 55) =>
               registers[10] = 130
        /\ (initial_registers[10] = 2 /\ initial_registers[11] = 3) =>
               registers = [r \in 0..31 |->
                               CASE r = 10 -> 30 [] r = 11 -> 3 [] r = 12 -> 25
                                 [] r = 13 -> 10 [] OTHER -> 0]

C16_Witness ==
    /\ steps = Len(instructions) /\ instr = Ret
    /\ initial_registers[10] = 2 /\ initial_registers[11] = 3
    /\ registers[10] = 30 /\ registers[12] = 25 /\ registers[13] = 10

----------------------------------------------------------------------------
(* Properties of the Emulator (checked under EmuSpec) *)

\* imm << 12 modulo 2^32 as an i32: the low 20 bits of imm, the top one being
\* the sign, followed by 12 zero bits
Shl12Value(imm) ==
    LET low20 == imm % 1048576
    IN  (IF low20 >= 524288 THEN low20 - 1048576 ELSE low20) * 4096

\* C17: lui(rd, imm) with rd in 1..31 stores imm shifted left by 12 bits
\* (modulo 2^32) in register rd, so that get_register_value(rd) returns it as
\* an i32 (lui(1, 1) gives 4096); auipc(rd, imm) stores the current pc plus
\* imm << 12; neither changes any other register or pc.
C17_UpperImmediate ==
    [][(call'.fn \in {"lui", "auipc"} /\ call'.rd # 0 /\ call'.status = "ok") =>
          /\ call'.fn = "lui" =>
                 get_register_value(emulator', call'.rd) = Shl12Value(call'.imm)
          /\ call'.fn = "auipc" =>
                 IsSumMod2_32(get_register_value(emulator', call'.rd),
                              U32AsI32(emulator.pc), Shl12Value(call'.imm))
          /\ \A r \in (0..31) \ {call'.rd} :
                 emulator'.registers[r] = emulator.registers[r]
          /\ emulator'.pc = emulator.pc]_vars

C17_Witness ==
    /\ call = [fn |-> "lui", rd |-> 1, imm |-> 1, status |-> "ok"]
    /\ get_register_value(emulator, 1) = 4096

\* C19: from Emulator::new(), after any sequence of add, addi, sub, lui and
\* auipc calls, get_register_value(0) is 0, pc is still 0, every call with
\* rd = 0 leaves all 32 registers unchanged, and no call panics on overflow.
C19_EmulatorZero ==
    [][/\ get_register_value(emulator', 0) = 0
       /\ emulator'.pc = <<0, 0>>
       /\ (call'.rd = 0) => (emulator'.registers = emulator.registers)
       /\ call'.status = "ok"]_vars

\* addi with rd = 0 on a register file that an earlier call has made non-zero
C19_Witness ==
    /\ call.fn = "addi" /\ call.rd = 0 /\ call.imm = -1 /\ call.status = "ok"
    /\ calls = 2
    /\ get_register_value(emulator, call.rs1) < 0
    /\ get_register_value(emulator, 0) = 0

----------------------------------------------------------------------------
(* Field widths of the decoder (checked under Spec) *)

RECURSIVE SumOver(_, _)
SumOver(w, names) ==
    IF names = {} THEN 0
    ELSE LET n == CHOOSE x \in names : TRUE
         IN w[n] + SumOver(w, names \ {n})

\* C18: for every 32-bit word and every format, each decoded field is smaller
\* than 2^(its bit width) and the widths of a format's fields sum to 32; so
\* every register index is in 0..31, every funct3 in 0..7, every opcode and
\* funct7 in 0..127 and every B/J sign field in 0..1.
C18_FieldWidths ==
    /\ \A fn \in ParseFns :
           SumOver(FieldWidths(fn), DOMAIN FieldWidths(fn)) = 32
    /\ (result.fn \in ParseFns /\ result.status = "ok") =>
           /\ DOMAIN result.rec = DOMAIN FieldWidths(result.fn)
           /\ \A f \in DOMAIN result.rec :
                  result.rec[f] \in 0..(2^(FieldWidths(result.fn)[f]) - 1)
           /\ \A f \in DOMAIN result.rec \cap {"rd", "rs1", "rs2"} :
                  result.rec[f] \in 0..31
           /\ \A f \in DOMAIN result.rec \cap {"funct3", "func3"} :
                  result.rec[f] \in 0..7
           /\ \A f \in DOMAIN result.rec \cap {"opcode", "funct7"} :
                  result.rec[f] \in 0..127
           /\ \A f \in DOMAIN result.rec \cap
                       {"sign_imm_5_to_11", "sign_imm_0_to_4", "sign_imm_21_30",
                        "sign_imm_12_19"} :
                  result.rec[f] \in 0..1

C18_Witness ==
    /\ result.fn = "parse_S" /\ result.status = "ok"
    /\ data = <<255, 255, 255, 255>>
    /\ result.rec.rs1 = 31 /\ result.rec.imm_5_to_11 = 127

====
